---- MODULE Spec2Model ----
(***************************************************************************)
(* Model of RingBuffer<T, buffer_size, allow_overwrite, lock, unlock>      *)
(* (src/ring_buffer.h) instantiated with the try-lock of the unit tests    *)
(* (src/test_ring_buffer.cpp, global_lock / global_unlock).                *)
(*                                                                         *)
(* Every public method is one operator from the object's state to the      *)
(* state after the call and the result it returns; every action applies    *)
(* one method to the current state.                                        *)
(***************************************************************************)
EXTENDS Integers, Sequences, FiniteSets, TLC

\* ---------------------------------------------------------------- bounds
\* buffer_size is 2^LogSize (the static_assert admits powers of two only).
LogSize == 2

\* The producer stops calling put once it has had MaxItems items accepted.
MaxItems == 5

RECURSIVE Pow2(_)
Pow2(k) == IF k = 0 THEN 1 ELSE 2 * Pow2(k - 1)

buffer_size == Pow2(LogSize)

\* Largest n_items passed to a bulk call (one more than the capacity).
MaxN == buffer_size + 1

\* Values the uninitialised dummy of testonly_advance_pointers can hold; the
\* real items are 1, 2, ...
Garbage == {0, -1}

Indices == 0 .. (buffer_size - 1)

\* ------------------------------------------------------------ rb_error_t
RB_ERROR_NONE == "RB_ERROR_NONE"
RB_ERROR_ILLEGAL == "RB_ERROR_ILLEGAL"
RB_ERROR_TIMEOUT == "RB_ERROR_TIMEOUT"
RB_ERROR_OVERWRITE == "RB_ERROR_OVERWRITE"

VARIABLES
    buffer,          \* T buffer[buffer_size]
    write_index,     \* size_t write_index
    read_index,      \* size_t read_index
    full,            \* bool full
    lock_count,      \* g_state.lock_count of the test's try-lock
    allow_overwrite, \* template parameter, fixed for the instance
    next_item,       \* the producer's next fresh item value
    last,            \* the last call: its name and result
    fifo,            \* ghost: the items put and not yet retrieved or discarded
    unread_max,      \* ghost: how many items can be buffered at most
    put_hist,        \* history (SpecFifo): items the puts accepted, in order
    get_hist,        \* history (SpecFifo): items the gets delivered, in order
    pc,              \* SpecConc: where each caller is in the method it runs
    pending          \* SpecConc: each caller's method, argument and locals

vars == <<buffer, write_index, read_index, full, lock_count, allow_overwrite,
          next_item, last, fifo, unread_max, put_hist, get_hist, pc, pending>>

\* The object and its lock as one record, the argument of every method.
Self == [buffer |-> buffer, write_index |-> write_index,
         read_index |-> read_index, full |-> full,
         lock_count |-> lock_count, allow_overwrite |-> allow_overwrite]

\* ------------------------------------------------------------- helpers
RECURSIVE BitAnd(_, _)
BitAnd(a, b) ==
    IF a = 0 \/ b = 0 THEN 0
    ELSE (IF a % 2 = 1 /\ b % 2 = 1 THEN 1 ELSE 0) + 2 * BitAnd(a \div 2, b \div 2)

Min(a, b) == IF a < b THEN a ELSE b

\* Mutant: as CopyIn, but the copy always starts at items[0].
CopyIn_from_start(buf, start, items, from, len) ==
    [i \in DOMAIN buf |->
        IF i >= start /\ i < start + len THEN items[(i - start) + 1]
        ELSE buf[i]]

\* memcpy(&buffer[start], &items[from], len * sizeof(T)); items is 0-based in
\* the source and a 1-based sequence here.
CopyIn(buf, start, items, from, len) ==
    [i \in DOMAIN buf |->
        IF i >= start /\ i < start + len THEN items[from + (i - start) + 1]
        ELSE buf[i]]

\* memcpy(dst, &buffer[start], len * sizeof(T)): the len values copied out.
CopyOut(buf, start, len) == [k \in 1 .. len |-> buf[start + k - 1]]

\* ------------------------------------------------- the test's try-lock
global_lock(s) ==
    IF s.lock_count > 0
    THEN [success |-> FALSE, s |-> s]
    ELSE [success |-> TRUE, s |-> [s EXCEPT !.lock_count = @ + 1]]

global_unlock(s) == [s EXCEPT !.lock_count = @ - 1]

\* ------------------------------------------------- private members
\* Mutant: as unsafe_level, but without adding buffer_size when write_index
\* is behind read_index.
unsafe_level_no_wrap(s) ==
    IF s.full THEN buffer_size ELSE s.write_index - s.read_index

unsafe_level(s) ==
    IF s.full THEN buffer_size
    ELSE IF s.write_index >= s.read_index THEN s.write_index - s.read_index
    ELSE buffer_size + s.write_index - s.read_index

\* Mutant: as unsafe_is_empty, but equal indices alone mean empty.
unsafe_is_empty_ignores_full(s) == s.write_index = s.read_index

unsafe_is_empty(s) == (s.write_index = s.read_index) /\ ~s.full

unsafe_mark_full(s) == [s EXCEPT !.write_index = s.read_index, !.full = TRUE]

unsafe_mark_empty(s) == [s EXCEPT !.read_index = s.write_index, !.full = FALSE]

\* What a call returns, with the object after it.  out is what a bulk get
\* copied into the caller's array, in the array's order.
Result(s, error, value, out) ==
    [s |-> s, error |-> error, value |-> value, out |-> out]

\* -------------------------------------------------- put(const T &item)
\* Mutant: as put_write, but write_index is not masked after the increment.
put_write_unmasked(s, item) ==
    LET w == s.write_index + 1
    IN [s EXCEPT !.buffer[s.write_index] = item,
                 !.write_index = w,
                 !.full = (w = s.read_index)]

\* The do_write block: store the item, advance write_index, note fullness.
put_write(s, item) ==
    LET w == BitAnd(s.write_index + 1, buffer_size - 1)
    IN [s EXCEPT !.buffer[s.write_index] = item,
                 !.write_index = w,
                 !.full = (w = s.read_index)]

\* Mutant: as put_on_full, but a full buffer without overwrite is written
\* all the same.
put_on_full_writes_anyway(s) ==
    IF s.full
    THEN IF s.allow_overwrite
         THEN [error |-> RB_ERROR_OVERWRITE, do_write |-> TRUE,
               s |-> [s EXCEPT !.read_index = BitAnd(@ + 1, buffer_size - 1)]]
         ELSE [error |-> RB_ERROR_ILLEGAL, do_write |-> TRUE, s |-> s]
    ELSE [error |-> RB_ERROR_NONE, do_write |-> TRUE, s |-> s]

\* The branch on full: the error code, whether to write, and the read_index
\* advanced by one when overwriting.
put_on_full(s) ==
    IF s.full
    THEN IF s.allow_overwrite
         THEN [error |-> RB_ERROR_OVERWRITE, do_write |-> TRUE,
               s |-> [s EXCEPT !.read_index = BitAnd(@ + 1, buffer_size - 1)]]
         ELSE [error |-> RB_ERROR_ILLEGAL, do_write |-> FALSE, s |-> s]
    ELSE [error |-> RB_ERROR_NONE, do_write |-> TRUE, s |-> s]

put(s, item) ==
    LET l == global_lock(s)
    IN IF l.success
       THEN LET b == put_on_full(l.s)
                s2 == IF b.do_write THEN put_write(b.s, item) ELSE b.s
            IN Result(global_unlock(s2), b.error, 0, <<>>)
       ELSE Result(s, RB_ERROR_TIMEOUT, 0, <<>>)

\* ---------------------------------- put(const T *items, size_t n_items)
\* Mutant: as put_items_on_full, but a full buffer without overwrite is an
\* error, as in the single put.
put_items_on_full_illegal(s, n_items) ==
    IF s.full
    THEN IF s.allow_overwrite
         THEN [error |-> RB_ERROR_OVERWRITE, do_write |-> TRUE,
               s |-> [s EXCEPT !.read_index =
                         BitAnd(@ + Min(n_items, buffer_size), buffer_size - 1)]]
         ELSE [error |-> RB_ERROR_ILLEGAL, do_write |-> FALSE, s |-> s]
    ELSE [error |-> RB_ERROR_NONE, do_write |-> TRUE, s |-> s]

\* Mutant: as put_items_on_full, but allow_overwrite is ignored: a full
\* buffer takes nothing.
put_items_on_full_never_overwrites(s, n_items) ==
    IF s.full
    THEN [error |-> RB_ERROR_NONE, do_write |-> FALSE, s |-> s]
    ELSE [error |-> RB_ERROR_NONE, do_write |-> TRUE, s |-> s]

\* Mutant: as put_items_on_full, but read_index advances by n_items, not by
\* min(n_items, buffer_size).
put_items_on_full_no_min(s, n_items) ==
    IF s.full
    THEN IF s.allow_overwrite
         THEN [error |-> RB_ERROR_OVERWRITE, do_write |-> TRUE,
               s |-> [s EXCEPT !.read_index =
                         BitAnd(@ + n_items, buffer_size - 1)]]
         ELSE [error |-> RB_ERROR_NONE, do_write |-> FALSE, s |-> s]
    ELSE [error |-> RB_ERROR_NONE, do_write |-> TRUE, s |-> s]

\* Mutant: as put_items_on_full, but read_index is not masked after the
\* addition.
put_items_on_full_unmasked(s, n_items) ==
    IF s.full
    THEN IF s.allow_overwrite
         THEN [error |-> RB_ERROR_OVERWRITE, do_write |-> TRUE,
               s |-> [s EXCEPT !.read_index = @ + Min(n_items, buffer_size)]]
         ELSE [error |-> RB_ERROR_NONE, do_write |-> FALSE, s |-> s]
    ELSE [error |-> RB_ERROR_NONE, do_write |-> TRUE, s |-> s]

\* The branch on full of the bulk put.
put_items_on_full(s, n_items) ==
    IF s.full
    THEN IF s.allow_overwrite
         THEN [error |-> RB_ERROR_OVERWRITE, do_write |-> TRUE,
               s |-> [s EXCEPT !.read_index =
                         BitAnd(@ + Min(n_items, buffer_size), buffer_size - 1)]]
         ELSE [error |-> RB_ERROR_NONE, do_write |-> FALSE, s |-> s]
    ELSE [error |-> RB_ERROR_NONE, do_write |-> TRUE, s |-> s]

\* The do_write block of the bulk put: at most two copies.
put_items_write(s, items) ==
    LET n_items == Len(items)
    IN IF s.write_index >= s.read_index
       THEN LET available_until_end_of_buffer == buffer_size - s.write_index
            IN IF n_items >= available_until_end_of_buffer
               THEN LET b1 == CopyIn(s.buffer, s.write_index, items, 0,
                                     available_until_end_of_buffer)
                        n_items_remaining == n_items - available_until_end_of_buffer
                    IN IF n_items_remaining < s.read_index
                       THEN [s |-> [s EXCEPT
                                 !.buffer = CopyIn(b1, 0, items,
                                                   available_until_end_of_buffer,
                                                   n_items_remaining),
                                 !.write_index = n_items_remaining],
                             value |-> n_items]
                       ELSE [s |-> unsafe_mark_full([s EXCEPT
                                 !.buffer = CopyIn(b1, 0, items,
                                                   available_until_end_of_buffer,
                                                   s.read_index)]),
                             value |-> available_until_end_of_buffer + s.read_index]
               ELSE [s |-> [s EXCEPT
                         !.buffer = CopyIn(s.buffer, s.write_index, items, 0, n_items),
                         !.write_index = @ + n_items],
                     value |-> n_items]
       ELSE LET available == s.read_index - s.write_index
            IN IF n_items < available
               THEN [s |-> [s EXCEPT
                         !.buffer = CopyIn(s.buffer, s.write_index, items, 0, n_items),
                         !.write_index = @ + n_items],
                     value |-> n_items]
               ELSE [s |-> unsafe_mark_full([s EXCEPT
                         !.buffer = CopyIn(s.buffer, s.write_index, items, 0, available)]),
                     value |-> available]

\* One memcpy call: len items between the storage from slot start on and
\* the caller's array from index from on.
Copy(start, from, len) == [start |-> start, from |-> from, len |-> len]

\* Mutant: as put_items_copies, but the second copy takes all the remaining
\* items, whether or not they fit before read_index.
put_items_copies_unbounded(s, n_items) ==
    IF s.write_index >= s.read_index
    THEN LET available_until_end_of_buffer == buffer_size - s.write_index
         IN IF n_items >= available_until_end_of_buffer
            THEN <<Copy(s.write_index, 0, available_until_end_of_buffer),
                   Copy(0, available_until_end_of_buffer,
                        n_items - available_until_end_of_buffer)>>
            ELSE <<Copy(s.write_index, 0, n_items)>>
    ELSE <<Copy(s.write_index, 0, n_items)>>

\* The memcpy calls of the do_write block of the bulk put, in order.
put_items_copies(s, n_items) ==
    IF s.write_index >= s.read_index
    THEN LET available_until_end_of_buffer == buffer_size - s.write_index
         IN IF n_items >= available_until_end_of_buffer
            THEN LET n_items_remaining == n_items - available_until_end_of_buffer
                 IN IF n_items_remaining < s.read_index
                    THEN <<Copy(s.write_index, 0, available_until_end_of_buffer),
                           Copy(0, available_until_end_of_buffer, n_items_remaining)>>
                    ELSE <<Copy(s.write_index, 0, available_until_end_of_buffer),
                           Copy(0, available_until_end_of_buffer, s.read_index)>>
            ELSE <<Copy(s.write_index, 0, n_items)>>
    ELSE LET available == s.read_index - s.write_index
         IN IF n_items < available
            THEN <<Copy(s.write_index, 0, n_items)>>
            ELSE <<Copy(s.write_index, 0, available)>>

put_items(s, items) ==
    LET l == global_lock(s)
    IN IF l.success
       THEN LET b == put_items_on_full(l.s, Len(items))
                w == IF b.do_write THEN put_items_write(b.s, items)
                     ELSE [s |-> b.s, value |-> 0]
            IN Result(global_unlock(w.s), b.error, w.value, <<>>)
       ELSE Result(s, RB_ERROR_TIMEOUT, 0, <<>>)

\* ------------------------------------------------------------------ get()
\* Mutant: as get_read, but the full flag is left as it is.
get_read_keeps_full(s) ==
    [s |-> [s EXCEPT !.read_index = BitAnd(@ + 1, buffer_size - 1)],
     value |-> s.buffer[s.read_index]]

\* The non-empty branch: read the slot at read_index and advance it.
get_read(s) ==
    [s |-> [s EXCEPT !.read_index = BitAnd(@ + 1, buffer_size - 1),
                     !.full = FALSE],
     value |-> s.buffer[s.read_index]]

\* Mutant: as get, but without the check for an empty buffer.
get_unchecked(s) ==
    LET l == global_lock(s)
    IN IF l.success
       THEN LET g == get_read(l.s)
            IN Result(global_unlock(g.s), RB_ERROR_NONE, g.value, <<>>)
       ELSE Result(s, RB_ERROR_TIMEOUT, 0, <<>>)

get(s) ==
    LET l == global_lock(s)
    IN IF l.success
       THEN IF unsafe_is_empty(l.s)
            THEN Result(global_unlock(l.s), RB_ERROR_ILLEGAL, 0, <<>>)
            ELSE LET g == get_read(l.s)
                 IN Result(global_unlock(g.s), RB_ERROR_NONE, g.value, <<>>)
       ELSE Result(s, RB_ERROR_TIMEOUT, 0, <<>>)

\* ------------------------------------------ get(T *items, size_t n_items)
\* Mutant: as get_items_contiguous, but the buffer is emptied by pulling
\* write_index back to read_index.
get_items_contiguous_moves_write_index(s, n_items) ==
    LET available == s.write_index - s.read_index
    IN IF n_items < available
       THEN [s |-> [s EXCEPT !.read_index = @ + n_items],
             value |-> n_items,
             out |-> CopyOut(s.buffer, s.read_index, n_items)]
       ELSE [s |-> [s EXCEPT !.write_index = s.read_index, !.full = FALSE],
             value |-> available,
             out |-> CopyOut(s.buffer, s.read_index, available)]

\* The branch taken when write_index > read_index: one contiguous run.
get_items_contiguous(s, n_items) ==
    LET available == s.write_index - s.read_index
    IN IF n_items < available
       THEN [s |-> [s EXCEPT !.read_index = @ + n_items],
             value |-> n_items,
             out |-> CopyOut(s.buffer, s.read_index, n_items)]
       ELSE [s |-> unsafe_mark_empty(s),
             value |-> available,
             out |-> CopyOut(s.buffer, s.read_index, available)]

\* The branch taken when write_index <= read_index: the run may wrap.
get_items_wrapping(s, n_items) ==
    LET available_until_end_of_buffer == buffer_size - s.read_index
    IN IF n_items >= available_until_end_of_buffer
       THEN LET o1 == CopyOut(s.buffer, s.read_index, available_until_end_of_buffer)
                n_items_remaining == n_items - available_until_end_of_buffer
            IN IF n_items_remaining < s.write_index
               THEN [s |-> [s EXCEPT !.read_index = n_items_remaining],
                     value |-> n_items,
                     out |-> o1 \o CopyOut(s.buffer, 0, n_items_remaining)]
               ELSE [s |-> unsafe_mark_empty(s),
                     value |-> available_until_end_of_buffer + s.write_index,
                     out |-> o1 \o CopyOut(s.buffer, 0, s.write_index)]
       ELSE [s |-> [s EXCEPT !.read_index = @ + n_items],
             value |-> n_items,
             out |-> CopyOut(s.buffer, s.write_index, n_items)]

\* The memcpy calls of the bulk get, in order.
get_items_copies(s, n_items) ==
    IF unsafe_is_empty(s) THEN <<>>
    ELSE IF s.write_index > s.read_index
    THEN LET available == s.write_index - s.read_index
         IN IF n_items < available
            THEN <<Copy(s.read_index, 0, n_items)>>
            ELSE <<Copy(s.read_index, 0, available)>>
    ELSE LET available_until_end_of_buffer == buffer_size - s.read_index
         IN IF n_items >= available_until_end_of_buffer
            THEN LET n_items_remaining == n_items - available_until_end_of_buffer
                 IN IF n_items_remaining < s.write_index
                    THEN <<Copy(s.read_index, 0, available_until_end_of_buffer),
                           Copy(0, available_until_end_of_buffer, n_items_remaining)>>
                    ELSE <<Copy(s.read_index, 0, available_until_end_of_buffer),
                           Copy(0, available_until_end_of_buffer, s.write_index)>>
            ELSE <<Copy(s.write_index, 0, n_items)>>

get_items(s, n_items) ==
    LET l == global_lock(s)
    IN IF l.success
       THEN IF unsafe_is_empty(l.s)
            THEN Result(global_unlock(l.s), RB_ERROR_NONE, 0, <<>>)
            ELSE LET g == IF l.s.write_index > l.s.read_index
                          THEN get_items_contiguous(l.s, n_items)
                          ELSE get_items_wrapping(l.s, n_items)
                 IN Result(global_unlock(g.s), RB_ERROR_NONE, g.value, g.out)
       ELSE Result(s, RB_ERROR_TIMEOUT, 0, <<>>)

\* ---------------------------------------------------------------- reset()
\* Mutant: as reset, but without taking the lock.
reset_unlocked(s) ==
    Result([s EXCEPT !.write_index = s.read_index, !.full = FALSE],
           RB_ERROR_NONE, 0, <<>>)

\* Mutant: as reset, but the buffer is emptied by moving read_index up to
\* write_index.
reset_moves_read_index(s) ==
    LET l == global_lock(s)
    IN IF l.success
       THEN Result(global_unlock(unsafe_mark_empty(l.s)), RB_ERROR_NONE, 0, <<>>)
       ELSE Result(s, RB_ERROR_TIMEOUT, 0, <<>>)

reset(s) ==
    LET l == global_lock(s)
    IN IF l.success
       THEN Result(global_unlock([l.s EXCEPT !.write_index = l.s.read_index,
                                             !.full = FALSE]),
                   RB_ERROR_NONE, 0, <<>>)
       ELSE Result(s, RB_ERROR_TIMEOUT, 0, <<>>)

\* ----------------------------------------------------------- diagnostics
is_empty(s) ==
    LET l == global_lock(s)
    IN IF l.success
       THEN Result(global_unlock(l.s), RB_ERROR_NONE, unsafe_is_empty(l.s), <<>>)
       ELSE Result(s, RB_ERROR_TIMEOUT, TRUE, <<>>)

\* Mutant: as is_full, but a held lock makes it answer false, the way the
\* locking queries give up.
is_full_under_lock(s) == IF s.lock_count > 0 THEN FALSE ELSE s.full

is_full(s) == s.full

level(s) ==
    LET l == global_lock(s)
    IN IF l.success
       THEN Result(global_unlock(l.s), RB_ERROR_NONE, unsafe_level(l.s), <<>>)
       ELSE Result(s, RB_ERROR_TIMEOUT, 0, <<>>)

available(s) ==
    LET l == global_lock(s)
    IN IF l.success
       THEN Result(global_unlock(l.s), RB_ERROR_NONE,
                   buffer_size - unsafe_level(l.s), <<>>)
       ELSE Result(s, RB_ERROR_TIMEOUT, 0, <<>>)

\* ------------------------------------------- testonly_advance_pointers(n)
RECURSIVE RepeatPut(_, _, _)
RepeatPut(s, dummy, n) ==
    IF n = 0 THEN s ELSE RepeatPut(put(s, dummy).s, dummy, n - 1)

RECURSIVE RepeatGet(_, _)
RepeatGet(s, n) == IF n = 0 THEN s ELSE RepeatGet(get(s).s, n - 1)

testonly_advance_pointers(s, n, dummy) == RepeatGet(RepeatPut(s, dummy, n), n)

\* ------------------------------------------- construction (make_buffer)
\* RingBuffer<...>(): value-initialised, so the storage is zeroed, the
\* indices are 0 and full is false.
RingBuffer(overwrite) ==
    [buffer |-> [i \in Indices |-> 0], write_index |-> 0, read_index |-> 0,
     full |-> FALSE, lock_count |-> 0, allow_overwrite |-> overwrite]

make_buffer(offset, dummy, overwrite) ==
    testonly_advance_pointers(RingBuffer(overwrite), offset, dummy)

\* ------------------------------------------------------------ the machine
\* The items of the next put: consecutive fresh values, so that a skipped,
\* repeated or stale item is visible in what the gets deliver.
NextItems(n) == [k \in 1 .. n |-> next_item + k - 1]

Called(op, res) == [op |-> op, error |-> res.error, value |-> res.value]

\* The sequence q without its first k elements (all of them when k >= Len(q)).
Drop(q, k) == SubSeq(q, Min(k, Len(q)) + 1, Len(q))

\* Ghost bookkeeping of what the calls report: the items a put reports as
\* accepted join the queue, each one replacing the oldest item when the put
\* reports an overwrite; the items a get delivers leave it, and a reset
\* empties it.
FifoPut(q, item, res) ==
    IF res.error = RB_ERROR_NONE THEN Append(q, item)
    ELSE IF res.error = RB_ERROR_OVERWRITE THEN Append(Drop(q, 1), item)
    ELSE q

FifoPutItems(q, items, res) ==
    IF res.error = RB_ERROR_NONE THEN q \o SubSeq(items, 1, res.value)
    ELSE IF res.error = RB_ERROR_OVERWRITE
    THEN Drop(q, res.value) \o SubSeq(items, 1, res.value)
    ELSE q

FifoGet(q, res) == IF res.error = RB_ERROR_NONE THEN Drop(q, 1) ELSE q

FifoGetItems(q, res) == IF res.error = RB_ERROR_NONE THEN Drop(q, res.value) ELSE q

FifoReset(q, res) == IF res.error = RB_ERROR_NONE THEN <<>> ELSE q

\* Ghost upper bound on the number of buffered items, whatever an overwrite
\* discarded: the items accepted and not yet delivered, at most buffer_size.
MaxAfterPut(u, accepted) == Min(buffer_size, u + accepted)

MaxAfterGet(u, delivered) == IF delivered >= u THEN 0 ELSE u - delivered

Install(s) ==
    /\ buffer' = s.buffer
    /\ write_index' = s.write_index
    /\ read_index' = s.read_index
    /\ full' = s.full
    /\ lock_count' = s.lock_count

\* The callers of SpecConc, and what a caller that runs no method holds.
Callers == {"producer", "consumer"}

NoCall == [op |-> "none", n |-> 0, error |-> RB_ERROR_NONE,
           write_index |-> 0, full |-> FALSE]

\* The alignments the tests start from: 0, 1/4, 1/2, 3/4 and 1 of the capacity.
Offsets == {(k * buffer_size) \div 4 : k \in 0 .. 4}

\* auto rb = make_buffer<T, capacity>(offset), the lock free.
Init ==
    \E offset \in Offsets, dummy \in Garbage, overwrite \in BOOLEAN :
        LET s == make_buffer(offset, dummy, overwrite)
        IN /\ buffer = s.buffer
           /\ write_index = s.write_index
           /\ read_index = s.read_index
           /\ full = s.full
           /\ lock_count = s.lock_count
           /\ allow_overwrite = overwrite
           /\ next_item = 1
           /\ last = [op |-> "make_buffer", error |-> RB_ERROR_NONE, value |-> 0]
           /\ fifo = <<>>
           /\ unread_max = 0
           /\ put_hist = <<>>
           /\ get_hist = <<>>
           /\ pc = [c \in Callers |-> "idle"]
           /\ pending = [c \in Callers |-> NoCall]

\* ---- the calls; the histories are left to the specification that uses them
PutCall(res) ==
    /\ next_item <= MaxItems
    /\ res = put(Self, next_item)
    /\ Install(res.s)
    /\ next_item' = IF res.error \in {RB_ERROR_NONE, RB_ERROR_OVERWRITE}
                    THEN next_item + 1 ELSE next_item
    /\ last' = Called("put", res)
    /\ fifo' = FifoPut(fifo, next_item, res)
    /\ unread_max' = IF res.error \in {RB_ERROR_NONE, RB_ERROR_OVERWRITE}
                     THEN MaxAfterPut(unread_max, 1) ELSE unread_max
    /\ UNCHANGED <<allow_overwrite, pc, pending>>

PutItemsCall(n, res) ==
    /\ next_item <= MaxItems
    /\ res = put_items(Self, NextItems(n))
    /\ Install(res.s)
    /\ next_item' = next_item + res.value
    /\ last' = Called("put_items", res)
    /\ fifo' = FifoPutItems(fifo, NextItems(n), res)
    /\ unread_max' = MaxAfterPut(unread_max, res.value)
    /\ UNCHANGED <<allow_overwrite, pc, pending>>

GetCall(res) ==
    /\ res = get(Self)
    /\ Install(res.s)
    /\ last' = Called("get", res)
    /\ fifo' = FifoGet(fifo, res)
    /\ unread_max' = IF res.error = RB_ERROR_NONE
                     THEN MaxAfterGet(unread_max, 1) ELSE unread_max
    /\ UNCHANGED <<allow_overwrite, next_item, pc, pending>>

GetItemsCall(n, res) ==
    /\ res = get_items(Self, n)
    /\ Install(res.s)
    /\ last' = Called("get_items", res)
    /\ fifo' = FifoGetItems(fifo, res)
    /\ unread_max' = MaxAfterGet(unread_max, res.value)
    /\ UNCHANGED <<allow_overwrite, next_item, pc, pending>>

Put == PutCall(put(Self, next_item)) /\ UNCHANGED <<put_hist, get_hist>>

PutItems ==
    \E n \in 0 .. MaxN :
        PutItemsCall(n, put_items(Self, NextItems(n)))
        /\ UNCHANGED <<put_hist, get_hist>>

Get == GetCall(get(Self)) /\ UNCHANGED <<put_hist, get_hist>>

GetItems ==
    \E n \in 0 .. MaxN :
        GetItemsCall(n, get_items(Self, n)) /\ UNCHANGED <<put_hist, get_hist>>

Reset ==
    /\ LET res == reset(Self)
       IN /\ Install(res.s)
          /\ last' = Called("reset", res)
          /\ fifo' = FifoReset(fifo, res)
          /\ unread_max' = IF res.error = RB_ERROR_NONE THEN 0 ELSE unread_max
    /\ UNCHANGED <<allow_overwrite, next_item, put_hist, get_hist, pc, pending>>

IsEmpty ==
    /\ LET res == is_empty(Self)
       IN /\ Install(res.s)
          /\ last' = Called("is_empty", res)
    /\ UNCHANGED <<allow_overwrite, next_item, fifo, unread_max, put_hist, get_hist,
                   pc, pending>>

Level ==
    /\ LET res == level(Self)
       IN /\ Install(res.s)
          /\ last' = Called("level", res)
    /\ UNCHANGED <<allow_overwrite, next_item, fifo, unread_max, put_hist, get_hist,
                   pc, pending>>

Available ==
    /\ LET res == available(Self)
       IN /\ Install(res.s)
          /\ last' = Called("available", res)
    /\ UNCHANGED <<allow_overwrite, next_item, fifo, unread_max, put_hist, get_hist,
                   pc, pending>>

IsFull ==
    /\ last' = Called("is_full", Result(Self, RB_ERROR_NONE, is_full(Self), <<>>))
    /\ UNCHANGED <<buffer, write_index, read_index, full, lock_count,
                   allow_overwrite, next_item, fifo, unread_max, put_hist, get_hist,
                   pc, pending>>

\* The test takes the lock itself (test_cant_do_anything_while_locked) ...
GlobalLock ==
    /\ LET l == global_lock(Self)
       IN /\ Install(l.s)
          /\ last' = Called("global_lock",
                            Result(l.s, RB_ERROR_NONE, l.success, <<>>))
    /\ UNCHANGED <<allow_overwrite, next_item, fifo, unread_max, put_hist, get_hist,
                   pc, pending>>

\* ... and gives it back; global_unlock asserts that the lock is held.
GlobalUnlock ==
    /\ lock_count > 0
    /\ Install(global_unlock(Self))
    /\ last' = Called("global_unlock", Result(Self, RB_ERROR_NONE, 0, <<>>))
    /\ UNCHANGED <<allow_overwrite, next_item, fifo, unread_max, put_hist, get_hist,
                   pc, pending>>

Next ==
    \/ Put
    \/ PutItems
    \/ Get
    \/ GetItems
    \/ Reset
    \/ IsEmpty
    \/ Level
    \/ Available
    \/ IsFull
    \/ GlobalLock
    \/ GlobalUnlock

Spec == Init /\ [][Next]_vars

\* ---- the calls that change the object, under either policy, and the lock of
\* the test; the queries, which leave the object as it is, are not called
InitData == Init

NextData ==
    \/ Put
    \/ PutItems
    \/ Get
    \/ GetItems
    \/ Reset
    \/ GlobalLock
    \/ GlobalUnlock

SpecData == InitData /\ [][NextData]_vars

\* ---- producer and consumer alone, overwrite disabled, with the histories
InitFifo == Init /\ allow_overwrite = FALSE

PutLogged ==
    LET res == put(Self, next_item)
    IN /\ PutCall(res)
       /\ put_hist' = IF res.error = RB_ERROR_NONE
                      THEN Append(put_hist, next_item) ELSE put_hist
       /\ UNCHANGED get_hist

PutItemsLogged ==
    \E n \in 0 .. MaxN :
        LET res == put_items(Self, NextItems(n))
        IN /\ PutItemsCall(n, res)
           /\ put_hist' = put_hist \o SubSeq(NextItems(n), 1, res.value)
           /\ UNCHANGED get_hist

GetLogged ==
    LET res == get(Self)
    IN /\ GetCall(res)
       /\ get_hist' = IF res.error = RB_ERROR_NONE
                      THEN Append(get_hist, res.value) ELSE get_hist
       /\ UNCHANGED put_hist

GetItemsLogged ==
    \E n \in 0 .. MaxN :
        LET res == get_items(Self, n)
        IN /\ GetItemsCall(n, res)
           /\ get_hist' = get_hist \o res.out
           /\ UNCHANGED put_hist

NextFifo ==
    \/ PutLogged
    \/ PutItemsLogged
    \/ GetLogged
    \/ GetItemsLogged

SpecFifo == InitFifo /\ [][NextFifo]_vars

\* ---- two callers, each method in the steps of its code
\* Mutant: as try_enter, but reset() goes on without having the lock.
try_enter_reset_without_lock(s, op) ==
    IF op = "reset" THEN [success |-> TRUE, s |-> s] ELSE global_lock(s)

\* Mutant: as try_enter, but a method that did not get the lock calls
\* unlock() all the same.
try_enter_unlocks_on_timeout(s, op) ==
    LET l == global_lock(s)
    IN IF l.success THEN l ELSE [success |-> FALSE, s |-> global_unlock(s)]

\* if (lock()) at the head of the locking method op.
try_enter(s, op) == global_lock(s)

\* unlock() at the end of the branch that got the lock.
leave(s) == global_unlock(s)

Methods == {"put", "put_items", "get", "get_items",
            "reset", "is_empty", "level", "available"}

\* What each caller calls: the producer puts, the consumer does the rest;
\* both poll is_full().
MethodsOf(c) ==
    IF c = "producer" THEN {"put", "put_items"}
    ELSE Methods \ {"put", "put_items"}

\* n_items of the bulk calls: nothing, one item, more than the buffer holds.
ConcSizes == {0, 1, MaxN}

\* The producer of SpecConc puts the same item value every time.
ConcItems(n) == [k \in 1 .. n |-> next_item]

\* The method op called with n_items = n.
Call(s, op, n) ==
    CASE op = "put" -> put(s, next_item)
      [] op = "put_items" -> put_items(s, ConcItems(n))
      [] op = "get" -> get(s)
      [] op = "get_items" -> get_items(s, n)
      [] op = "reset" -> reset(s)
      [] op = "is_empty" -> is_empty(s)
      [] op = "level" -> level(s)
      [] op = "available" -> available(s)

\* What the method does between its lock() and its unlock() is what the whole
\* method does to an object whose lock is free.
CriticalSection(op, n) == Call([Self EXCEPT !.lock_count = 0], op, n)

InitConc == Init

\* What a caller of SpecConc got back: the method and its error code.
Returned(op, error) == [op |-> op, error |-> error, value |-> 0]

\* The caller enters op: lock() either succeeds, and the caller is in its
\* critical section, or fails, and the method returns RB_ERROR_TIMEOUT.
Acquire(c) ==
    /\ pc[c] = "idle"
    /\ \E op \in MethodsOf(c), n \in ConcSizes :
          /\ op \in {"put_items", "get_items"} \/ n = 0
          /\ LET l == try_enter(Self, op)
             IN /\ lock_count' = l.s.lock_count
                /\ IF l.success
                   THEN /\ pc' = [pc EXCEPT ![c] = "locked"]
                        /\ pending' = [pending EXCEPT ![c] =
                                          [NoCall EXCEPT !.op = op, !.n = n]]
                        /\ UNCHANGED last
                   ELSE /\ last' = Returned(op, Call(Self, op, n).error)
                        /\ UNCHANGED <<pc, pending>>
    /\ UNCHANGED <<buffer, write_index, read_index, full, allow_overwrite,
                   next_item, fifo, unread_max, put_hist, get_hist>>

\* The first writes of the critical section, in the order of the code:
\* read_index, then the storage.  write_index and full are still to come.
Update(c) ==
    /\ pc[c] = "locked"
    /\ LET res == CriticalSection(pending[c].op, pending[c].n)
       IN /\ read_index' = res.s.read_index
          /\ buffer' = res.s.buffer
          /\ pending' = [pending EXCEPT ![c] =
                            [@ EXCEPT !.error = res.error,
                                      !.write_index = res.s.write_index,
                                      !.full = res.s.full]]
    /\ pc' = [pc EXCEPT ![c] = "updating"]
    /\ UNCHANGED <<write_index, full, lock_count, allow_overwrite, next_item,
                   last, fifo, unread_max, put_hist, get_hist>>

\* The last writes of the critical section: write_index, then full.
Complete(c) ==
    /\ pc[c] = "updating"
    /\ write_index' = pending[c].write_index
    /\ full' = pending[c].full
    /\ pc' = [pc EXCEPT ![c] = "unlocking"]
    /\ UNCHANGED <<buffer, read_index, lock_count, allow_overwrite, next_item,
                   last, fifo, unread_max, put_hist, get_hist, pending>>

\* unlock(), and the method returns.
Release(c) ==
    /\ pc[c] = "unlocking"
    /\ lock_count' = leave(Self).lock_count
    /\ last' = Returned(pending[c].op, pending[c].error)
    /\ pc' = [pc EXCEPT ![c] = "idle"]
    /\ pending' = [pending EXCEPT ![c] = NoCall]
    /\ UNCHANGED <<buffer, write_index, read_index, full, allow_overwrite,
                   next_item, fifo, unread_max, put_hist, get_hist>>

\* A bool as the integer it converts to.
AsInt(b) == IF b THEN 1 ELSE 0

\* is_full(): one read of the flag, without the lock.
IsFullRead(c) ==
    /\ pc[c] = "idle"
    /\ last' = [op |-> "is_full", error |-> RB_ERROR_NONE,
                value |-> AsInt(is_full(Self))]
    /\ UNCHANGED <<buffer, write_index, read_index, full, lock_count,
                   allow_overwrite, next_item, fifo, unread_max, put_hist,
                   get_hist, pc, pending>>

NextConc ==
    \E c \in Callers :
        \/ Acquire(c)
        \/ Update(c)
        \/ Complete(c)
        \/ Release(c)
        \/ IsFullRead(c)

SpecConc == InitConc /\ [][NextConc]_vars

\* ------------------------------------------------------------- claims
IsPrefix(p, q) == Len(p) <= Len(q) /\ SubSeq(q, 1, Len(p)) = p

\* What successive single get() calls deliver from s until one fails.
RECURSIVE Drain(_)
Drain(s) ==
    LET g == get(s)
    IN IF g.error = RB_ERROR_NONE THEN <<g.value>> \o Drain(g.s) ELSE <<>>

\* C1: with overwrite disabled and the lock free, what the gets have
\* delivered so far is, value for value, a prefix of what the puts accepted.
C1_FifoOrder == IsPrefix(get_hist, put_hist)

C1_FifoSpecActs == Len(get_hist) >= 2 /\ Len(put_hist) > Len(get_hist)

\* n_items values of a bulk call, and the items the next bulk put would pass.
Sizes == 0 .. MaxN

LockFree == lock_count = 0

\* C2: while the lock is held, every locking method returns RB_ERROR_TIMEOUT
\* and leaves the indices, the full flag, the storage and the lock as they were.
C2_TimeoutWhenLocked ==
    lock_count > 0 =>
        /\ put(Self, next_item) = Result(Self, RB_ERROR_TIMEOUT, 0, <<>>)
        /\ \A n \in Sizes :
              /\ put_items(Self, NextItems(n)).error = RB_ERROR_TIMEOUT
              /\ put_items(Self, NextItems(n)).s = Self
              /\ get_items(Self, n).error = RB_ERROR_TIMEOUT
              /\ get_items(Self, n).s = Self
        /\ get(Self).error = RB_ERROR_TIMEOUT /\ get(Self).s = Self
        /\ is_empty(Self).error = RB_ERROR_TIMEOUT /\ is_empty(Self).s = Self
        /\ level(Self).error = RB_ERROR_TIMEOUT /\ level(Self).s = Self
        /\ available(Self).error = RB_ERROR_TIMEOUT /\ available(Self).s = Self
        /\ reset(Self).error = RB_ERROR_TIMEOUT /\ reset(Self).s = Self

C2_TimedOutReset ==
    /\ lock_count > 0
    /\ last.op = "reset" /\ last.error = RB_ERROR_TIMEOUT
    /\ fifo # <<>>

\* C3: overwrite disabled: a single put into a buffer that holds buffer_size
\* items returns RB_ERROR_ILLEGAL and changes nothing; level() is buffer_size
\* before and after, the next buffer_size gets deliver the stored items in
\* order, and the get after them returns RB_ERROR_ILLEGAL.
C3_PutToFullIllegal ==
    (~allow_overwrite /\ LockFree /\ Len(fifo) = buffer_size) =>
        LET res == put(Self, next_item)
        IN /\ res.error = RB_ERROR_ILLEGAL
           /\ res.s = Self
           /\ level(Self).value = buffer_size
           /\ level(res.s).value = buffer_size
           /\ Drain(res.s) = fifo
           /\ get(RepeatGet(res.s, buffer_size)).error = RB_ERROR_ILLEGAL

C3_PutToFullRefused ==
    /\ ~allow_overwrite /\ LockFree /\ Len(fifo) = buffer_size
    /\ last.op = "put" /\ last.error = RB_ERROR_ILLEGAL
    /\ read_index # 0

\* C4: overwrite enabled: whenever is_full() is true, a single put returns
\* RB_ERROR_OVERWRITE, leaves level() = buffer_size and discards exactly the
\* oldest item: the gets deliver the former second-oldest first and the put
\* item last of buffer_size items.
C4_PutOverwritesOldest ==
    (allow_overwrite /\ LockFree /\ is_full(Self) /\ next_item <= MaxItems) =>
        LET res == put(Self, next_item)
        IN /\ res.error = RB_ERROR_OVERWRITE
           /\ level(res.s).value = buffer_size
           /\ Len(Drain(res.s)) = buffer_size
           /\ Drain(res.s) = Append(Tail(Drain(Self)), next_item)

\* C5: a get() on an empty buffer returns RB_ERROR_ILLEGAL and leaves the
\* indices, the full flag and the storage as they were, at every alignment.
C5_GetFromEmptyIllegal ==
    (LockFree /\ (is_empty(Self).value \/ (~allow_overwrite /\ fifo = <<>>))) =>
        /\ get(Self).error = RB_ERROR_ILLEGAL
        /\ get(Self).s = Self

C5_GetFromEmptyRefused ==
    /\ LockFree /\ fifo = <<>> /\ is_empty(Self).value
    /\ last.op = "get" /\ last.error = RB_ERROR_ILLEGAL
    /\ read_index # 0 /\ next_item > 1

\* C6: overwrite disabled: in every reachable state a bulk put of k items
\* into a buffer with m free slots returns RB_ERROR_NONE with count
\* Min(k, m), and queues exactly the first Min(k, m) items behind the
\* buffered ones, in input order.
C6_BulkPutCount ==
    (~allow_overwrite /\ LockFree) =>
        \A k \in Sizes :
            LET m == buffer_size - Len(fifo)
                res == put_items(Self, NextItems(k))
            IN /\ res.error = RB_ERROR_NONE
               /\ res.value = Min(k, m)
               /\ Drain(res.s) = fifo \o SubSeq(NextItems(k), 1, Min(k, m))

\* C7: overwrite disabled: a bulk put of any n items into a full buffer
\* returns RB_ERROR_NONE with count 0 and changes nothing; the gets still
\* deliver the buffered items in their order.
C7_BulkPutToFull ==
    (~allow_overwrite /\ LockFree /\ (is_full(Self) \/ Len(fifo) = buffer_size)) =>
        \A n \in Sizes :
            LET res == put_items(Self, NextItems(n))
            IN /\ res.error = RB_ERROR_NONE
               /\ res.value = 0
               /\ res.s = Self
               /\ Drain(res.s) = fifo

C7_BulkPutToFullRefused ==
    /\ ~allow_overwrite /\ LockFree /\ Len(fifo) = buffer_size
    /\ last.op = "put_items" /\ last.error = RB_ERROR_NONE /\ last.value = 0
    /\ next_item = buffer_size + 1
    /\ read_index # 0

\* The state of the scenario of C8: overwrite enabled, the first buffer_size
\* items have just filled the buffer by one bulk put.
FilledByBulkPut ==
    /\ allow_overwrite /\ LockFree
    /\ fifo = [k \in 1 .. buffer_size |-> k]
    /\ last.op = "put_items" /\ last.value = buffer_size

\* C8 as stated: overwrite enabled: once a bulk put of buffer_size items has
\* filled the buffer, a bulk put of two more returns count 0 and the gets
\* still deliver the first buffer_size items.
C8_BulkPutToFullKeepsOld ==
    FilledByBulkPut =>
        LET res == put_items(Self, NextItems(2))
        IN /\ res.value = 0
           /\ Drain(res.s) = fifo

\* C8 amended: overwrite enabled: once a bulk put of buffer_size items has
\* filled the buffer, a bulk put of two more returns RB_ERROR_OVERWRITE with
\* count 2 and the gets deliver the items from the third on, the two new
\* ones last (3, 4, 5, 6 for capacity 4).
C8_BulkPutToFullOverwrites ==
    FilledByBulkPut =>
        LET res == put_items(Self, NextItems(2))
        IN /\ res.error = RB_ERROR_OVERWRITE
           /\ res.value = 2
           /\ Drain(res.s) = SubSeq(fifo, 3, buffer_size) \o NextItems(2)

C8_OverwrittenByBulkPut ==
    /\ allow_overwrite /\ LockFree
    /\ last.op = "put_items" /\ last.error = RB_ERROR_OVERWRITE /\ last.value = 2
    /\ fifo = [k \in 1 .. buffer_size |-> k + 2]

\* The buffer holds buffer_size items: the buffer_size items put last and not
\* yet retrieved are what the gets would deliver.
HoldsFull == Len(fifo) = buffer_size /\ Drain(Self) = fifo

\* C9: overwrite enabled: a bulk put of n >= 1 items into a buffer that holds
\* buffer_size items returns RB_ERROR_OVERWRITE with count Min(n, buffer_size),
\* advances read_index by that count modulo buffer_size, leaves the buffer
\* full, and the gets then deliver the surviving old items followed by the
\* first Min(n, buffer_size) input items.
C9_BulkOverwrite ==
    (allow_overwrite /\ LockFree /\ HoldsFull) =>
        \A n \in Sizes \ {0} :
            LET c == Min(n, buffer_size)
                res == put_items(Self, NextItems(n))
            IN /\ res.error = RB_ERROR_OVERWRITE
               /\ res.value = c
               /\ res.s.read_index = (read_index + c) % buffer_size
               /\ res.s.full
               /\ level(res.s).value = buffer_size
               /\ Drain(res.s) = Drop(fifo, c) \o SubSeq(NextItems(n), 1, c)

C9_BulkOverwriteActs ==
    /\ allow_overwrite /\ LockFree /\ HoldsFull
    /\ last.op = "put_items" /\ last.error = RB_ERROR_OVERWRITE
    /\ last.value = buffer_size
    /\ read_index # 0

\* C10: with the lock free, in every reachable state a bulk get of n items
\* returns RB_ERROR_NONE with count Min(n, number of items buffered).  The
\* number buffered is Len(fifo); where a put reported an overwrite although
\* the buffer was not full, any number from Len(fifo) to unread_max is taken
\* for it.
C10_BulkGetCount ==
    LockFree =>
        \E buffered \in Len(fifo) .. unread_max :
            \A n \in Sizes :
                LET res == get_items(Self, n)
                IN /\ res.error = RB_ERROR_NONE
                   /\ res.value = Min(n, buffered)

\* With overwrite disabled the count of a bulk get is right in every state.
BulkGetCountNoOverwrite == ~allow_overwrite => C10_BulkGetCount

\* C11: overwrite disabled, lock free: a bulk get that returns count c has
\* copied into the caller's array exactly the c oldest buffered items, in the
\* order they were put, whatever the alignment of the indices and whatever n.
C11_BulkGetOldest ==
    (~allow_overwrite /\ LockFree) =>
        \A n \in Sizes :
            LET res == get_items(Self, n)
            IN res.out = SubSeq(fifo, 1, res.value)

\* C12: overwrite disabled, buffer not full: the items a bulk put accepts are
\* delivered by the following single gets in input order, behind all the
\* items buffered before, at every alignment of write_index.
C12_BulkPutThenGets ==
    (~allow_overwrite /\ LockFree /\ Len(fifo) < buffer_size) =>
        \A k \in Sizes :
            LET res == put_items(Self, NextItems(k))
            IN /\ res.error = RB_ERROR_NONE
               /\ Drain(res.s) = fifo \o SubSeq(NextItems(k), 1, res.value)

\* A bulk put of at least two items has just been accepted behind an older
\* item, and the written region wrapped from the last slot to slot 0.
C12_BulkPutWrapped ==
    /\ ~allow_overwrite /\ LockFree
    /\ last.op = "put_items" /\ last.error = RB_ERROR_NONE /\ last.value >= 2
    /\ Len(fifo) > last.value
    /\ write_index > 0 /\ write_index < last.value
    /\ Drain(Self) = fifo

\* C13: whenever the lock can be acquired, level() and available() succeed,
\* level() is between 0 and buffer_size, and the two add up to buffer_size.
C13_LevelPlusAvailable ==
    LockFree =>
        /\ level(Self).error = RB_ERROR_NONE
        /\ available(Self).error = RB_ERROR_NONE
        /\ level(Self).value \in 0 .. buffer_size
        /\ level(Self).value + available(Self).value = buffer_size

\* available() has just answered on a partly filled buffer whose unread
\* region wraps around the end of the array.
C13_AvailableAnswered ==
    /\ LockFree
    /\ last.op = "available" /\ last.error = RB_ERROR_NONE
    /\ last.value \notin {0, buffer_size}
    /\ write_index < read_index

\* C14: a reset() that gets the lock returns RB_ERROR_NONE and empties the
\* buffer: afterwards level() is 0, is_empty() is true, is_full() is false
\* and get() returns RB_ERROR_ILLEGAL; write_index has become read_index and
\* read_index is where it was.
C14_ResetEmpties ==
    LockFree =>
        LET res == reset(Self)
        IN /\ res.error = RB_ERROR_NONE
           /\ level(res.s).value = 0
           /\ is_empty(res.s).value
           /\ ~is_full(res.s)
           /\ get(res.s).error = RB_ERROR_ILLEGAL
           /\ res.s.write_index = read_index
           /\ res.s.read_index = read_index
           /\ res.s.buffer = buffer

\* reset() has just emptied a buffer that held buffer_size - 1 items none of
\* which had been retrieved: item 1 still lies in the slot at read_index.
C14_ResetDiscarded ==
    /\ ~allow_overwrite /\ LockFree
    /\ last.op = "reset" /\ last.error = RB_ERROR_NONE
    /\ next_item = buffer_size
    /\ buffer[read_index] = 1
    /\ write_index = read_index /\ ~full

\* C15: overwrite disabled, lock free: level() is the number of items
\* accepted and neither retrieved nor discarded by a reset; when the full flag
\* is false that number is (write_index - read_index) mod buffer_size.
C15_LevelIsUnreadCount ==
    (~allow_overwrite /\ LockFree) =>
        /\ level(Self).value = Len(fifo)
        /\ ~full => Len(fifo) = (write_index - read_index) % buffer_size

\* C16: with the lock free, the full flag is true exactly when the buffer
\* holds buffer_size unread items, and a true full flag comes with
\* write_index = read_index.
C16_FullIffHoldsAll ==
    LockFree =>
        /\ full => write_index = read_index
        /\ ~allow_overwrite => (full <=> Len(fifo) = buffer_size)

\* C17: in every reachable state, after bulk calls of every n_items from 0 to
\* buffer_size + 1 and under either overwrite policy, write_index and
\* read_index are valid indices of the array.
C17_IndicesInRange ==
    /\ write_index \in Indices
    /\ read_index \in Indices

\* A bulk put of more items than fit has just overwritten the whole of a full
\* buffer that starts in the last slot of the array.
C17_BulkOverwriteAtLastSlot ==
    /\ allow_overwrite
    /\ last.op = "put_items" /\ last.error = RB_ERROR_OVERWRITE
    /\ last.value = buffer_size
    /\ write_index = buffer_size - 1 /\ read_index = buffer_size - 1

\* The callers that are inside a method's critical section.
Inside == {c \in Callers : pc[c] # "idle"}

\* C18: every method releases the lock exactly once after it acquired it and
\* never when its acquire failed: the lock is held exactly while one caller
\* is between its lock() and its unlock(), and a call of any method from any
\* state returns with the lock as it found it.
C18_LockBalanced ==
    /\ lock_count = Cardinality(Inside)
    /\ \A op \in Methods, n \in ConcSizes :
          Call(Self, op, n).s.lock_count = lock_count

\* A caller is about to release the lock it holds, and the other caller's
\* call has timed out meanwhile.
C18_TimedOutDuringCall ==
    /\ \E c \in Callers : pc[c] = "unlocking"
    /\ lock_count = 1
    /\ last.error = RB_ERROR_TIMEOUT

\* The state shared by the callers.
Shared == <<buffer, write_index, read_index, full>>

\* C19: at most one caller is inside a critical section at any time and it
\* holds the lock; every step that changes write_index, read_index, full or
\* the storage is a step of that caller, so no method begins while another
\* has updated the indices only in part.
C19_Serialized ==
    /\ [](Cardinality(Inside) <= 1 /\ (Inside # {} => lock_count > 0))
    /\ [][Shared' # Shared =>
              /\ lock_count > 0
              /\ \E c \in Inside : pc'[c] # pc[c]
              /\ \A c \in Callers \ Inside : pc'[c] = "idle"]_vars

\* An overwriting put has advanced read_index and not yet write_index, and
\* the consumer's call has timed out meanwhile.
C19_RefusedDuringUpdate ==
    /\ pc["producer"] = "updating"
    /\ pending["producer"].op = "put"
    /\ pending["producer"].error = RB_ERROR_OVERWRITE
    /\ full /\ read_index # write_index
    /\ pc["consumer"] = "idle"
    /\ last.error = RB_ERROR_TIMEOUT /\ last.op = "get"

\* C20: is_full() takes no lock and never times out: whoever holds the lock
\* and whatever update is under way, it returns the value the full flag has
\* at the moment of the read, and it changes neither the buffer nor the lock.
C20_IsFullUnlocked ==
    [][(last'.op = "is_full" /\ last' # last) =>
          /\ last'.error = RB_ERROR_NONE
          /\ last'.value = AsInt(full)
          /\ UNCHANGED <<buffer, write_index, read_index, full, lock_count,
                         pc, pending>>]_vars

\* is_full() has answered true while the producer was still inside the put
\* that filled the buffer: the put found the flag false, has set it and has
\* not yet released the lock.
C20_PolledDuringPut ==
    /\ last.op = "is_full" /\ last.value = AsInt(TRUE)
    /\ pc["producer"] = "unlocking"
    /\ pending["producer"].op = "put"
    /\ pending["producer"].error = RB_ERROR_NONE
    /\ full /\ lock_count = 1

\* The elements of a sequence.
Range(q) == {q[i] : i \in DOMAIN q}

\* C21: overwrite disabled, lock free: every value a single or a bulk get
\* delivers is an item that was put and not yet retrieved, never the stale
\* content of a slot outside the unread region.
C21_NoStaleData ==
    (~allow_overwrite /\ LockFree) =>
        /\ get(Self).error = RB_ERROR_NONE => get(Self).value \in Range(fifo)
        /\ \A n \in Sizes : Range(get_items(Self, n).out) \subseteq Range(fifo)

BulkPutCopies(s, n_items) ==
    LET b == put_items_on_full(s, n_items)
    IN IF b.do_write THEN put_items_copies(b.s, n_items) ELSE <<>>

\* The copies cs stay inside the array, fill the caller's array from index 0
\* on without gap or overlap, and move count items in all.
CopiesInBounds(cs, count) ==
    /\ Len(cs) <= 2
    /\ \A i \in DOMAIN cs :
          /\ cs[i].start >= 0 /\ cs[i].len >= 0
          /\ cs[i].start + cs[i].len <= buffer_size
          /\ cs[i].from = (IF i = 1 THEN 0 ELSE cs[1].len)
    /\ count = (IF Len(cs) = 0 THEN 0
                ELSE IF Len(cs) = 1 THEN cs[1].len
                ELSE cs[1].len + cs[2].len)

\* The storage after the copies cs out of items, and what the copies cs
\* bring out of the storage.
RECURSIVE CopiesIn(_, _, _)
CopiesIn(buf, cs, items) ==
    IF cs = <<>> THEN buf
    ELSE CopiesIn(CopyIn(buf, Head(cs).start, items, Head(cs).from, Head(cs).len),
                  Tail(cs), items)

RECURSIVE CopiesOut(_, _)
CopiesOut(buf, cs) ==
    IF cs = <<>> THEN <<>>
    ELSE CopyOut(buf, Head(cs).start, Head(cs).len) \o CopiesOut(buf, Tail(cs))

\* C23: with the lock free, a bulk put and a bulk get of any n_items make at
\* most two memcpy calls; each stays within the array, the caller-side ranges
\* follow one another from index 0, and their lengths add up to the returned
\* count, which is at most n_items.  The copies are those of the call: they
\* produce the storage the put leaves and the items the get delivers.
C23_CopiesInBounds ==
    LockFree =>
        \A n \in Sizes :
            LET p == put_items(Self, NextItems(n))
                pc_ == BulkPutCopies(Self, n)
                g == get_items(Self, n)
                gc == get_items_copies(Self, n)
            IN /\ CopiesInBounds(pc_, p.value)
               /\ p.value <= n
               /\ CopiesIn(buffer, pc_, NextItems(n)) = p.s.buffer
               /\ CopiesInBounds(gc, g.value)
               /\ g.value <= n
               /\ CopiesOut(buffer, gc) = g.out

\* A bulk get has just needed two copies: it read up to the end of the array
\* and went on from slot 0.
C23_BulkGetInTwoCopies ==
    /\ LockFree
    /\ last.op = "get_items" /\ last.error = RB_ERROR_NONE
    /\ read_index > 0 /\ last.value > read_index

\* The slots the copies cs touch in the array.
SlotsOf(cs) ==
    UNION {{cs[i].start + k : k \in 0 .. cs[i].len - 1} : i \in DOMAIN cs}

\* The slots that hold the items put and not yet retrieved.
UnreadSlots == {(read_index + k) % buffer_size : k \in 0 .. Len(fifo) - 1}

\* The slots between read_index and write_index as the object has them: all
\* of them when the full flag is set.
ValidRegion(s) ==
    {(s.read_index + k) % buffer_size : k \in 0 .. unsafe_level(s) - 1}

\* C24: with the lock free and fewer than buffer_size items buffered, a bulk
\* put of any n_items, under either policy, returns RB_ERROR_NONE (a short
\* write when the items do not fit), leaves read_index where it was and
\* writes into no slot that holds an unread item.
C24_BulkPutKeepsUnread ==
    (LockFree /\ unread_max < buffer_size) =>
        \A n \in Sizes :
            LET res == put_items(Self, NextItems(n))
            IN /\ res.error = RB_ERROR_NONE
               /\ res.s.read_index = read_index
               /\ SlotsOf(BulkPutCopies(Self, n)) \cap UnreadSlots = {}

\* The same for the states in which the full flag is false.
BulkPutKeepsUnreadFlagClear ==
    (LockFree /\ ~is_full(Self)) =>
        \A n \in Sizes :
            LET res == put_items(Self, NextItems(n))
            IN /\ res.error = RB_ERROR_NONE
               /\ res.s.read_index = read_index
               /\ SlotsOf(BulkPutCopies(Self, n)) \cap ValidRegion(Self) = {}
               /\ SlotsOf(BulkPutCopies(Self, n)) \cap UnreadSlots = {}

\* k single puts have been made on an empty buffer and left s: level() is k,
\* is_full() and is_empty() are true exactly for k = buffer_size and k = 0,
\* and as long as k < buffer_size the next put succeeds and the same holds
\* after it.
RECURSIVE PutsFillInOrder(_, _)
PutsFillInOrder(s, k) ==
    /\ level(s).value = k
    /\ is_full(s) <=> (k = buffer_size)
    /\ is_empty(s).value <=> (k = 0)
    /\ k < buffer_size =>
          LET p == put(s, next_item)
          IN p.error = RB_ERROR_NONE /\ PutsFillInOrder(p.s, k + 1)

\* C25: with the lock free the diagnostics agree: is_empty() is true exactly
\* when level() is 0, is_full() exactly when level() is buffer_size and
\* exactly when available() is 0, and the two are never both true; from an
\* empty buffer at any alignment, k <= buffer_size single puts all succeed
\* and leave level() = k, with is_full() true exactly for k = buffer_size.
C25_DiagnosticsAgree ==
    LockFree =>
        LET empty == is_empty(Self).value
            lvl == level(Self).value
            avail == available(Self).value
        IN /\ empty <=> (lvl = 0)
           /\ is_full(Self) <=> (lvl = buffer_size)
           /\ is_full(Self) <=> (avail = 0)
           /\ ~(empty /\ is_full(Self))
           /\ empty => PutsFillInOrder(Self, 0)

\* The last of buffer_size single puts has just filled a buffer that starts
\* in the middle of the array.
C25_FilledBySinglePuts ==
    /\ LockFree
    /\ last.op = "put" /\ last.error = RB_ERROR_NONE
    /\ next_item = buffer_size + 1 /\ Len(fifo) = buffer_size
    /\ full /\ read_index # 0

\* C26: in every reachable state, lock held or free: the single and the bulk
\* get leave write_index and every storage slot as they were; is_empty(),
\* level() and available() leave the whole object as it was and is_full()
\* only reads the flag; with overwrite disabled the single and the bulk put
\* leave read_index as it was.
C26_Frames ==
    /\ LET g == get(Self).s
       IN g.write_index = write_index /\ g.buffer = buffer
    /\ \A n \in Sizes :
          LET g == get_items(Self, n).s
          IN g.write_index = write_index /\ g.buffer = buffer
    /\ is_empty(Self).s = Self
    /\ level(Self).s = Self
    /\ available(Self).s = Self
    /\ is_full(Self) = full
    /\ ~allow_overwrite =>
          /\ put(Self, next_item).s.read_index = read_index
          /\ \A n \in Sizes :
                put_items(Self, NextItems(n)).s.read_index = read_index

\* A bulk get has just emptied, in one contiguous copy, a buffer that did not
\* start at slot 0.
C26_BulkGetEmptied ==
    /\ LockFree
    /\ last.op = "get_items" /\ last.error = RB_ERROR_NONE
    /\ last.value >= 2 /\ last.value <= read_index
    /\ read_index = write_index /\ ~full

TypeOK ==
    /\ write_index \in Nat
    /\ read_index \in Nat
    /\ full \in BOOLEAN
    /\ lock_count \in 0 .. 1

====
